---- MODULE Spec2Model ----
(***************************************************************************)
(* Model of the Harmonia Player (src/App.tsx): the tag-text repair         *)
(* function getBestEffortDecodedString, the artwork modal and the App      *)
(* component's import / transport state.                                   *)
(*                                                                         *)
(* A JavaScript string is a sequence of 16-bit code units (naturals).      *)
(* An optional string is a record [def, units]; def = FALSE is undefined.  *)
(***************************************************************************)
EXTENDS Integers, Sequences, FiniteSets, TLC

\* ------------------------------------------------------------------ bounds
MaxLen == 3
MaxImports == 2
MaxFiles == 2

\* Code units the inputs are drawn from: ASCII 'A', the bytes 0x80, 0x82,
\* 0xA9, 0xC3, 0xFF, and the wide units 0x4100, 0x4300, 0x7F00, 0x4141.
Units == {65, 128, 130, 169, 195, 255, 16640, 17152, 32512, 16705}

RECURSIVE SeqsUpTo(_, _)
SeqsUpTo(S, n) ==
  IF n = 0 THEN {<<>>}
  ELSE LET shorter == SeqsUpTo(S, n - 1)
       IN shorter \cup {Append(s, u) : s \in {t \in shorter : Len(t) = n - 1}, u \in S}

Undefined == [def |-> FALSE, units |-> <<>>]
Str(s) == [def |-> TRUE, units |-> s]
Inputs == {Undefined} \cup {Str(s) : s \in SeqsUpTo(Units, MaxLen)}

\* ------------------------------------------------- TextDecoder (host API)
DecodeError == [ok |-> FALSE, units |-> <<>>]
Decoded(s) == [ok |-> TRUE, units |-> s]

\* A code point as UTF-16 code units (surrogate pair above the BMP).
CodeUnits(cp) ==
  IF cp < 65536 THEN <<cp>>
  ELSE <<55296 + ((cp - 65536) \div 1024), 56320 + ((cp - 65536) % 1024)>>

\* new TextDecoder('utf-8', {fatal: true}).decode(buffer), from byte i on.
RECURSIVE Utf8DecodeFrom(_, _)
Utf8DecodeFrom(b, i) ==
  IF i > Len(b) THEN Decoded(<<>>)
  ELSE
    LET b0 == b[i]
        need == IF b0 <= 127 THEN 0
                ELSE IF b0 >= 194 /\ b0 <= 223 THEN 1
                ELSE IF b0 >= 224 /\ b0 <= 239 THEN 2
                ELSE IF b0 >= 240 /\ b0 <= 244 THEN 3
                ELSE -1
        lower(k) == IF k = 1 /\ b0 = 224 THEN 160
                    ELSE IF k = 1 /\ b0 = 240 THEN 144 ELSE 128
        upper(k) == IF k = 1 /\ b0 = 237 THEN 159
                    ELSE IF k = 1 /\ b0 = 244 THEN 143 ELSE 191
    IN IF need = -1 \/ i + need > Len(b) THEN DecodeError
       ELSE IF \E k \in 1..need : b[i + k] < lower(k) \/ b[i + k] > upper(k)
            THEN DecodeError
       ELSE
         LET cp == IF need = 0 THEN b0
                   ELSE IF need = 1 THEN (b0 - 192) * 64 + (b[i + 1] - 128)
                   ELSE IF need = 2
                        THEN (b0 - 224) * 4096 + (b[i + 1] - 128) * 64 + (b[i + 2] - 128)
                   ELSE (b0 - 240) * 262144 + (b[i + 1] - 128) * 4096
                        + (b[i + 2] - 128) * 64 + (b[i + 3] - 128)
             rest == Utf8DecodeFrom(b, i + need + 1)
         IN IF rest.ok THEN Decoded(CodeUnits(cp) \o rest.units) ELSE DecodeError

\* The decoder drops a leading byte order mark EF BB BF (ignoreBOM unset).
Utf8Decode(b) ==
  IF Len(b) >= 3 /\ b[1] = 239 /\ b[2] = 187 /\ b[3] = 191
  THEN Utf8DecodeFrom(b, 4)
  ELSE Utf8DecodeFrom(b, 1)

\* Index jis0208, rows 3 and 4 (pointers 188..375, the pointers of lead
\* byte 0x82) and pointer 0; -1 is an unassigned cell.  Units holds no other
\* Shift-JIS lead byte, so no other pointer is looked up.
Jis0208(p) ==
  LET ten == (p % 94) + 1
      ku == (p \div 94) + 1
  IN IF p = 0 THEN 12288
     ELSE IF ku = 3 /\ ten >= 16 /\ ten <= 25 THEN 65296 + (ten - 16)
     ELSE IF ku = 3 /\ ten >= 33 /\ ten <= 58 THEN 65313 + (ten - 33)
     ELSE IF ku = 3 /\ ten >= 65 /\ ten <= 90 THEN 65345 + (ten - 65)
     ELSE IF ku = 4 /\ ten >= 1 /\ ten <= 83 THEN 12353 + (ten - 1)
     ELSE -1

\* new TextDecoder('shift-jis', {fatal: true}).decode(buffer), from byte i on.
RECURSIVE SjisDecodeFrom(_, _)
SjisDecodeFrom(b, i) ==
  IF i > Len(b) THEN Decoded(<<>>)
  ELSE
    LET b0 == b[i]
    IN IF b0 <= 128 THEN
         LET rest == SjisDecodeFrom(b, i + 1)
         IN IF rest.ok THEN Decoded(<<b0>> \o rest.units) ELSE DecodeError
       ELSE IF b0 >= 161 /\ b0 <= 223 THEN
         LET rest == SjisDecodeFrom(b, i + 1)
         IN IF rest.ok THEN Decoded(<<65377 - 161 + b0>> \o rest.units) ELSE DecodeError
       ELSE IF (b0 >= 129 /\ b0 <= 159) \/ (b0 >= 224 /\ b0 <= 252) THEN
         IF i + 1 > Len(b) THEN DecodeError
         ELSE
           LET b1 == b[i + 1]
               offset == IF b1 < 127 THEN 64 ELSE 65
               leadOffset == IF b0 < 160 THEN 129 ELSE 193
               inRange == (b1 >= 64 /\ b1 <= 126) \/ (b1 >= 128 /\ b1 <= 252)
               pointer == (b0 - leadOffset) * 188 + b1 - offset
               cp == IF ~inRange THEN -1
                     ELSE IF pointer >= 8836 /\ pointer <= 10715
                          THEN 57344 - 8836 + pointer
                     ELSE Jis0208(pointer)
               rest == SjisDecodeFrom(b, i + 2)
           IN IF cp = -1 THEN DecodeError
              ELSE IF rest.ok THEN Decoded(<<cp>> \o rest.units) ELSE DecodeError
       ELSE DecodeError

SjisDecode(b) == SjisDecodeFrom(b, 1)

\* ------------------------------------------- getBestEffortDecodedString
\* (charCode & 0x00FF) === 0 && (charCode >> 8) >= 0x20 && (charCode >> 8) <= 0x7E
IsShiftedAscii(charCode) ==
  (charCode % 256 = 0) /\ (charCode \div 256 >= 32) /\ (charCode \div 256 <= 126)

\* The first loop: `reconstructed` after the loop, which breaks at the first
\* unit that does not fit.
RECURSIVE Reconstructed(_)
Reconstructed(s) ==
  IF s = <<>> THEN <<>>
  ELSE IF IsShiftedAscii(Head(s)) THEN <<Head(s) \div 256>> \o Reconstructed(Tail(s))
  ELSE <<>>

isMisinterpretedUTF16BE(s) == \A i \in 1..Len(s) : IsShiftedAscii(s[i])

\* Variant: only the first unit is inspected.
isPotentiallyGarbled_FirstOnly(s) == s[1] <= 255

isPotentiallyGarbled(s) == \A i \in 1..Len(s) : s[i] <= 255

\* buffer[i] = text.charCodeAt(i): a Uint8Array store keeps the low byte.
Buffer(s) == [i \in 1..Len(s) |-> s[i] % 256]

Return(s) == [threw |-> FALSE, def |-> TRUE, units |-> s]
Throw == [threw |-> TRUE, def |-> FALSE, units |-> <<>>]

\* Variant: the falsy input itself is handed back.
EmptyResult_ReturnsInput == [threw |-> FALSE, def |-> FALSE, units |-> <<>>]

\* if (!text) return '';
EmptyResult == Return(<<>>)

\* Variant: the flag is not consulted, a reconstructed prefix is enough.
Step1Applies_NoFlag(s) == Reconstructed(s) # <<>>

\* if (isMisinterpretedUTF16BE && reconstructed) return reconstructed;
Step1Applies(s) == isMisinterpretedUTF16BE(s) /\ Reconstructed(s) # <<>>

\* try { decode } catch (e) {}: a failed decode is skipped.
TryDecode(d, s) == d.ok /\ d.units # s

\* Variant: Shift-JIS is attempted before UTF-8.
DecodeSteps_SjisFirst(s) ==
  LET buffer == Buffer(s)
      decodedUtf8 == Utf8Decode(buffer)
      decodedSjis == SjisDecode(buffer)
  IN IF TryDecode(decodedSjis, s) THEN Return(decodedSjis.units)
     ELSE IF TryDecode(decodedUtf8, s) THEN Return(decodedUtf8.units)
     ELSE Return(s)

\* Variant: no Shift-JIS attempt.
DecodeSteps_NoSjis(s) ==
  LET decodedUtf8 == Utf8Decode(Buffer(s))
  IN IF TryDecode(decodedUtf8, s) THEN Return(decodedUtf8.units) ELSE Return(s)

\* Variant: the decode attempts are not wrapped in try/catch.
DecodeSteps_NoCatch(s) ==
  LET buffer == Buffer(s)
      decodedUtf8 == Utf8Decode(buffer)
      decodedSjis == SjisDecode(buffer)
  IN IF ~decodedUtf8.ok THEN Throw
     ELSE IF decodedUtf8.units # s THEN Return(decodedUtf8.units)
     ELSE IF ~decodedSjis.ok THEN Throw
     ELSE IF decodedSjis.units # s THEN Return(decodedSjis.units)
     ELSE Return(s)

\* The two decode attempts and the final `return text`.
DecodeSteps(s) ==
  LET buffer == Buffer(s)
      decodedUtf8 == Utf8Decode(buffer)
      decodedSjis == SjisDecode(buffer)
  IN IF TryDecode(decodedUtf8, s) THEN Return(decodedUtf8.units)
     ELSE IF TryDecode(decodedSjis, s) THEN Return(decodedSjis.units)
     ELSE Return(s)

\* if (!isPotentiallyGarbled) return text;
ByteRangeCheck(s) == IF ~isPotentiallyGarbled(s) THEN Return(s) ELSE DecodeSteps(s)

getBestEffortDecodedString(t) ==
  IF ~t.def \/ t.units = <<>> THEN EmptyResult
  ELSE IF Step1Applies(t.units) THEN Return(Reconstructed(t.units))
  ELSE ByteRangeCheck(t.units)

\* ------------------------------------------------------------------ state
VARIABLES
  text, result, pc,            \* one call of getBestEffortDecodedString
  playlist,                    \* App: Track[]
  currentTrackIndex,           \* App: number | null (null is -1)
  isLoading, error, isPlaying, isArtModalOpen,
  imports,                     \* the handleFileChange calls made so far
  audioSrc, audioState, audioPaused,   \* the <audio> element
  events,                      \* its queued 'play' / 'pause' event tasks
  playPromise,                 \* the promise of the last play() call
  revoked,                     \* object URLs passed to URL.revokeObjectURL
  imageUrl, previewUrl, modalError, isValidImage,   \* SetArtworkModal
  timerPending,                \* the 300 ms setTimeout of the imageUrl effect
  imgLoading,                  \* src the preview <img> is fetching, "" if none
  loadedOk,                    \* preview URLs whose load event has fired
  artTarget                    \* currentTrack when "Set Artwork" was clicked

repairVars == <<text, result, pc>>
appVars == <<playlist, currentTrackIndex, isLoading, error, isPlaying,
             isArtModalOpen, imports>>
audioVars == <<audioSrc, audioState, audioPaused, events, playPromise>>
modalVars == <<imageUrl, previewUrl, modalError, isValidImage, timerPending,
               imgLoading, loadedOk, artTarget>>
vars == <<repairVars, appVars, audioVars, revoked, modalVars>>

NoResult == [threw |-> FALSE, def |-> FALSE, units |-> <<>>]
NoTrack == <<0, 0>>
ParseFailed == "Failed to parse one or more audio files."
NotHttp == "Please enter a valid URL starting with http or https."
NotLoaded == "Could not load image. Check the URL."

\* useState initial values, and the modal's imageUrl effect run once on mount.
AppIdle ==
  /\ playlist = <<>> /\ currentTrackIndex = -1
  /\ isLoading = FALSE /\ error = "" /\ isPlaying = FALSE
  /\ isArtModalOpen = FALSE /\ imports = <<>>
  /\ audioSrc = NoTrack /\ audioState = "empty" /\ audioPaused = TRUE
  /\ events = <<>> /\ playPromise = "none"
  /\ revoked = {}
  /\ imageUrl = "" /\ previewUrl = "" /\ modalError = ""
  /\ isValidImage = FALSE /\ timerPending = TRUE
  /\ imgLoading = "" /\ loadedOk = {}
  /\ artTarget = NoTrack

RepairInit == text \in Inputs /\ result = NoResult /\ pc = "call" /\ AppIdle

\* One call getBestEffortDecodedString(text).
Repair ==
  /\ pc = "call"
  /\ result' = getBestEffortDecodedString(text)
  /\ pc' = "done"
  /\ UNCHANGED <<text, appVars, audioVars, revoked, modalVars>>

RepairNext == Repair

SpecRepair == RepairInit /\ [][RepairNext]_vars

\* -------------------------------------------------------------- the App
\* Files the user can select: "song" parses and has no embedded picture,
\* "corrupt" makes musicMetadata.parseBlob reject.
Files == {"song", "corrupt"}
\* mm.common.picture && mm.common.picture.length > 0: neither kind of file
\* in Files carries an embedded picture.
HasPicture(file) == file \notin Files
Selections == SeqsUpTo(Files, MaxFiles) \ {<<>>}

\* Text of the modal's input: empty, not http, an image that loads, one that
\* does not.
ImageUrls == {"", "ftp://x", "http://a", "http://b"}
Loadable == {"http://a"}
StartsWithHttp(u) == u \in {"http://a", "http://b"}
StartsWithBlob(u) == u = "blob:art"

Range(f) == {f[i] : i \in DOMAIN f}

\* The Track the mapper returns for file i of import b (lines 245-257).
NewTrack(b, i, file) ==
  [batch |-> b, idx |-> i, file |-> file,
   albumArtUrl |-> IF HasPicture(file) THEN "blob:art" ELSE ""]

\* const newTracks = await Promise.all(...): one track per file, in order.
NewTracks(b, files) == [i \in 1..Len(files) |-> NewTrack(b, i, files[i])]

\* Variant: fulfilled as soon as one mapper has fulfilled.
PromiseAllFulfilled_Any(imp) == \E i \in DOMAIN imp.status : imp.status[i] = "ok"

\* Promise.all fulfils when every mapper promise has fulfilled.
PromiseAllFulfilled(imp) == \A i \in DOMAIN imp.status : imp.status[i] = "ok"

\* currentTrack: the Track object the index selects (null is NoTrack).
CurrentTrack(pl, index) ==
  IF index >= 0 /\ index < Len(pl)
  THEN <<pl[index + 1].batch, pl[index + 1].idx>> ELSE NoTrack

\* The forEach of lines 194-197 and 207-210 over a playlist.
RevokedBy(pl) ==
  {<<t.batch, t.idx, "file">> : t \in Range(pl)}
    \cup {<<t.batch, t.idx, "art">> : t \in {u \in Range(pl) : StartsWithBlob(u.albumArtUrl)}}

\* The effect of lines 309-315 after a render in which currentTrack became
\* `cur`: src, load() and play().  load() pauses the element without a
\* 'pause' event and drops its queued event tasks; play() is refused by the
\* host (allowed = FALSE) or un-pauses and queues 'play'.  A revoked blob URL
\* cannot be fetched: the element fails later and rejects the promise.
AutoPlay(cur, rev, allowed) ==
  LET bad == <<cur[1], cur[2], "file">> \in rev
  IN /\ audioSrc' = cur
     /\ audioState' = IF bad THEN "failing" ELSE "ok"
     /\ audioPaused' = ~allowed
     /\ events' = IF allowed THEN <<"play">> ELSE <<>>
     /\ playPromise' = IF ~allowed THEN "rejected"
                       ELSE IF bad THEN "pending" ELSE "none"

\* The effects that follow a render: the cleanup of lines 192-199 when the
\* playlist array changed, the effect of lines 309-315 when currentTrack did.
AfterRender(playlistChanged, allowed, pausedNow) ==
  LET cur == CurrentTrack(playlist', currentTrackIndex')
      rev == IF playlistChanged THEN revoked \cup RevokedBy(playlist) ELSE revoked
  IN /\ revoked' = rev
     /\ IF cur # NoTrack /\ cur # CurrentTrack(playlist, currentTrackIndex)
        THEN AutoPlay(cur, rev, allowed)
        ELSE /\ allowed /\ audioPaused' = pausedNow
             /\ UNCHANGED <<audioSrc, audioState, events, playPromise>>

\* No task runs while a rejected play() promise has its catch callback
\* queued as a microtask.
Idle == playPromise # "rejected"

\* handleFileChange up to the await (lines 202-216).
ImportStart(files) ==
  /\ Idle /\ Len(imports) < MaxImports
  /\ isLoading' = TRUE /\ error' = ""
  \* src = "": the element unloads, drops its queued events and aborts a
  \* pending play() promise (whose catch only logs).
  /\ audioSrc' = NoTrack /\ audioState' = "empty" /\ audioPaused' = TRUE
  /\ events' = <<>>
  /\ playPromise' = "none"
  /\ revoked' = revoked \cup RevokedBy(playlist)
  /\ playlist' = <<>> /\ currentTrackIndex' = -1 /\ isPlaying' = FALSE
  /\ imports' = Append(imports, [files |-> files,
                                 status |-> [i \in 1..Len(files) |-> "pending"],
                                 settled |-> FALSE])
  /\ UNCHANGED <<repairVars, isArtModalOpen, modalVars>>

\* parseBlob of file i of import b resolves and the mapper returns its Track;
\* when that fulfils Promise.all, lines 259-260 and 265 run.
ParseResolve(b, i, allowed) ==
  /\ Idle /\ b \in DOMAIN imports
  /\ i \in DOMAIN imports[b].status
  /\ imports[b].status[i] = "pending" /\ imports[b].files[i] # "corrupt"
  /\ LET imp == [imports[b] EXCEPT !.status[i] = "ok"]
         done == ~imp.settled /\ PromiseAllFulfilled(imp)
     IN /\ imports' = [imports EXCEPT ![b] = [imp EXCEPT !.settled = @ \/ done]]
        /\ IF done
           THEN /\ playlist' = NewTracks(b, imp.files)
                /\ currentTrackIndex' =
                     IF Len(playlist') > 0 THEN 0 ELSE currentTrackIndex
                /\ isLoading' = FALSE
                /\ AfterRender(TRUE, allowed, audioPaused)
           ELSE /\ allowed
                /\ UNCHANGED <<playlist, currentTrackIndex, isLoading,
                               audioVars, revoked>>
  /\ UNCHANGED <<repairVars, error, isPlaying, isArtModalOpen, modalVars>>

\* parseBlob of file i of import b rejects; the first rejection rejects
\* Promise.all and lines 261-265 run.
ParseReject(b, i) ==
  /\ Idle /\ b \in DOMAIN imports
  /\ i \in DOMAIN imports[b].status
  /\ imports[b].status[i] = "pending" /\ imports[b].files[i] = "corrupt"
  /\ LET first == ~imports[b].settled
     IN /\ imports' = [imports EXCEPT ![b].status[i] = "failed", ![b].settled = TRUE]
        /\ error' = IF first THEN ParseFailed ELSE error
        /\ isLoading' = IF first THEN FALSE ELSE isLoading
  /\ UNCHANGED <<repairVars, playlist, currentTrackIndex, isPlaying,
                 isArtModalOpen, audioVars, revoked, modalVars>>

\* playTrack(index) (lines 269-273), then the render.
SelectTrack(index, allowed, pausedNow) ==
  /\ IF index >= 0 /\ index < Len(playlist)
     THEN currentTrackIndex' = index
     ELSE currentTrackIndex' = currentTrackIndex
  /\ playlist' = playlist
  /\ AfterRender(FALSE, allowed, pausedNow)

\* A click on a playlist row (line 400).
PlayTrack(index, allowed) ==
  /\ Idle /\ index \in 0..(Len(playlist) - 1)
  /\ SelectTrack(index, allowed, audioPaused)
  /\ UNCHANGED <<repairVars, isLoading, error, isPlaying, isArtModalOpen,
                 imports, modalVars>>

\* Variant: the next index is stored as it is, neither wrapped nor passed
\* through playTrack's range test.
NextTrackStep_NoWrap(allowed, pausedNow) ==
  IF Len(playlist) = 0 \/ currentTrackIndex = -1
  THEN /\ allowed /\ audioPaused' = pausedNow
       /\ UNCHANGED <<playlist, currentTrackIndex, audioSrc, audioState,
                      events, playPromise, revoked>>
  ELSE /\ currentTrackIndex' = currentTrackIndex + 1
       /\ playlist' = playlist
       /\ AfterRender(FALSE, allowed, pausedNow)

\* handleNextTrack (lines 275-279).
NextTrackStep(allowed, pausedNow) ==
  IF Len(playlist) = 0 \/ currentTrackIndex = -1
  THEN /\ allowed /\ audioPaused' = pausedNow
       /\ UNCHANGED <<playlist, currentTrackIndex, audioSrc, audioState,
                      events, playPromise, revoked>>
  ELSE SelectTrack((currentTrackIndex + 1) % Len(playlist), allowed, pausedNow)

\* The transport row is rendered only while there is a current track.
HandleNextTrack(allowed) ==
  /\ Idle /\ CurrentTrack(playlist, currentTrackIndex) # NoTrack
  /\ NextTrackStep(allowed, audioPaused)
  /\ UNCHANGED <<repairVars, isLoading, error, isPlaying, isArtModalOpen,
                 imports, modalVars>>

\* handlePrevTrack (lines 281-285).
HandlePrevTrack(allowed) ==
  /\ Idle /\ CurrentTrack(playlist, currentTrackIndex) # NoTrack
  /\ IF Len(playlist) = 0 \/ currentTrackIndex = -1
     THEN allowed /\ UNCHANGED <<playlist, currentTrackIndex, audioVars, revoked>>
     ELSE SelectTrack((currentTrackIndex - 1 + Len(playlist)) % Len(playlist),
                      allowed, audioPaused)
  /\ UNCHANGED <<repairVars, isLoading, error, isPlaying, isArtModalOpen,
                 imports, modalVars>>

\* togglePlayPause (lines 287-294).  play() on an element whose source has
\* failed is rejected at once; on a paused element the host may refuse it.
TogglePlayPause(allowed) ==
  /\ Idle /\ CurrentTrack(playlist, currentTrackIndex) # NoTrack
  /\ IF isPlaying
     THEN /\ allowed
          /\ audioPaused' = TRUE
          /\ events' = IF audioPaused THEN events ELSE Append(events, "pause")
          /\ UNCHANGED playPromise
     ELSE IF audioState = "failed" \/ (audioPaused /\ ~allowed)
     THEN /\ ~allowed
          /\ playPromise' = "rejected"
          /\ UNCHANGED <<audioPaused, events>>
     ELSE /\ allowed
          /\ audioPaused' = FALSE
          /\ events' = IF audioPaused THEN Append(events, "play") ELSE events
          /\ playPromise' = IF audioState = "failing" THEN "pending" ELSE playPromise
  /\ UNCHANGED <<repairVars, appVars, audioSrc, audioState, revoked, modalVars>>

\* The catch callback of a rejected play() promise (lines 292 and 313): it
\* logs and changes nothing.
PlaybackError ==
  /\ playPromise = "rejected"
  /\ playPromise' = "none"
  /\ UNCHANGED <<repairVars, appVars, audioSrc, audioState, audioPaused,
                 events, revoked, modalVars>>

\* The element gives up on a source it cannot fetch and rejects the pending
\* play() promise; paused is left as it is.
MediaLoadFailed ==
  /\ Idle /\ audioState = "failing"
  /\ audioState' = "failed"
  /\ playPromise' = IF playPromise = "pending" THEN "rejected" ELSE playPromise
  /\ UNCHANGED <<repairVars, appVars, audioSrc, audioPaused, events, revoked,
                 modalVars>>

\* onPlay / onPause (lines 320-321) for the oldest queued event.
DeliverEvent ==
  /\ Idle /\ events # <<>>
  /\ isPlaying' = (Head(events) = "play")
  /\ events' = Tail(events)
  /\ UNCHANGED <<repairVars, playlist, currentTrackIndex, isLoading, error,
                 isArtModalOpen, imports, audioSrc, audioState, audioPaused,
                 playPromise, revoked, modalVars>>

\* Playback reaches the end of the media: the element pauses itself, fires
\* 'pause' and 'ended'; onEnded (line 322) calls handleNextTrack.
HostEnded(allowed) ==
  /\ Idle /\ audioState = "ok" /\ ~audioPaused /\ events = <<>>
  /\ isPlaying' = FALSE
  /\ NextTrackStep(allowed, TRUE)
  /\ UNCHANGED <<repairVars, isLoading, error, isArtModalOpen, imports, modalVars>>

\* ------------------------------------------------------ SetArtworkModal
\* The effect of lines 80-87 once isOpen is false, followed by the imageUrl
\* effect (lines 89-107) if that reset changed imageUrl; the preview <img>
\* is unmounted.
ModalReset ==
  /\ imageUrl' = "" /\ previewUrl' = "" /\ modalError' = ""
  /\ isValidImage' = FALSE
  /\ timerPending' = IF imageUrl # "" THEN TRUE ELSE timerPending
  /\ imgLoading' = ""
  /\ loadedOk' = {}
  /\ artTarget' = NoTrack

\* The "Set Artwork" button (lines 350-361).
OpenArtModal ==
  /\ Idle /\ ~isArtModalOpen /\ ~isLoading
  /\ CurrentTrack(playlist, currentTrackIndex) # NoTrack
  /\ playlist[currentTrackIndex + 1].albumArtUrl = ""
  /\ isArtModalOpen' = TRUE
  /\ artTarget' = CurrentTrack(playlist, currentTrackIndex)
  /\ UNCHANGED <<repairVars, playlist, currentTrackIndex, isLoading, error,
                 isPlaying, imports, audioVars, revoked, imageUrl, previewUrl,
                 modalError, isValidImage, timerPending, imgLoading, loadedOk>>

\* onClose (line 421): the close and the cancel button.
CloseArtModal ==
  /\ Idle /\ isArtModalOpen
  /\ isArtModalOpen' = FALSE
  /\ ModalReset
  /\ UNCHANGED <<repairVars, playlist, currentTrackIndex, isLoading, error,
                 isPlaying, imports, audioVars, revoked>>

\* onChange of the input (line 152) and the imageUrl effect (lines 89-91).
EditImageUrl(u) ==
  /\ Idle /\ isArtModalOpen /\ u # imageUrl
  /\ imageUrl' = u
  /\ isValidImage' = FALSE
  /\ timerPending' = TRUE
  /\ UNCHANGED <<repairVars, appVars, audioVars, revoked, previewUrl,
                 modalError, imgLoading, loadedOk, artTarget>>

\* The setTimeout callback (lines 92-101), which leaves isValidImage alone;
\* a changed previewUrl makes the preview <img> fetch the new src, an empty
\* one removes it.
DebounceTimer ==
  /\ Idle /\ timerPending
  /\ timerPending' = FALSE
  /\ previewUrl' = IF StartsWithHttp(imageUrl) THEN imageUrl ELSE ""
  /\ modalError' = IF StartsWithHttp(imageUrl) THEN ""
                   ELSE IF imageUrl # "" THEN NotHttp ELSE ""
  /\ isValidImage' = isValidImage
  /\ imgLoading' = IF previewUrl' = previewUrl THEN imgLoading
                   ELSE IF isArtModalOpen THEN previewUrl' ELSE ""
  /\ UNCHANGED <<repairVars, appVars, audioVars, revoked, imageUrl, loadedOk,
                 artTarget>>

\* handleImageLoad (lines 109-112).
ImageLoad ==
  /\ Idle /\ imgLoading \in Loadable
  /\ isValidImage' = TRUE /\ modalError' = ""
  /\ loadedOk' = loadedOk \cup {imgLoading}
  /\ imgLoading' = ""
  /\ UNCHANGED <<repairVars, appVars, audioVars, revoked, imageUrl, previewUrl,
                 timerPending, artTarget>>

\* handleImageError (lines 114-117).
ImageError ==
  /\ Idle /\ imgLoading # ""
  /\ isValidImage' = FALSE
  /\ modalError' = IF imageUrl # "" THEN NotLoaded ELSE modalError
  /\ imgLoading' = ""
  /\ UNCHANGED <<repairVars, appVars, audioVars, revoked, imageUrl, previewUrl,
                 timerPending, loadedOk, artTarget>>

\* setPlaylist's updater in handleApplyArt (lines 298-305): the Track at
\* index is mutated in place.
WithArt(pl, index, newArtUrl) ==
  IF index >= 0 /\ index < Len(pl)
  THEN [pl EXCEPT ![index + 1].albumArtUrl = newArtUrl] ELSE pl

\* "Use This Image" (line 167) calls handleApplyArt(previewUrl) (lines
\* 296-307).  The cleanup of lines 192-199 runs over the old array, whose
\* Track objects are the ones just mutated.
ApplyArt ==
  /\ Idle /\ isArtModalOpen /\ isValidImage
  /\ IF currentTrackIndex = -1
     THEN UNCHANGED <<playlist, isArtModalOpen, revoked, modalVars>>
     ELSE /\ playlist' = WithArt(playlist, currentTrackIndex, previewUrl)
          /\ revoked' = revoked \cup RevokedBy(playlist')
          /\ isArtModalOpen' = FALSE
          /\ ModalReset
  /\ UNCHANGED <<repairVars, currentTrackIndex, isLoading, error, isPlaying,
                 imports, audioVars>>

\* ------------------------------------------------------- specification
AppInit == text = Undefined /\ result = NoResult /\ pc = "idle" /\ AppIdle

AppNext ==
  \/ \E files \in Selections : ImportStart(files)
  \/ \E b \in 1..MaxImports, i \in 1..MaxFiles, allowed \in BOOLEAN :
       ParseResolve(b, i, allowed)
  \/ \E b \in 1..MaxImports, i \in 1..MaxFiles : ParseReject(b, i)
  \/ \E index \in 0..(MaxFiles - 1), allowed \in BOOLEAN : PlayTrack(index, allowed)
  \/ \E allowed \in BOOLEAN : HandleNextTrack(allowed)
  \/ \E allowed \in BOOLEAN : HandlePrevTrack(allowed)
  \/ \E allowed \in BOOLEAN : TogglePlayPause(allowed)
  \/ PlaybackError
  \/ MediaLoadFailed
  \/ DeliverEvent
  \/ \E allowed \in BOOLEAN : HostEnded(allowed)
  \/ OpenArtModal
  \/ CloseArtModal
  \/ \E u \in Loadable : EditImageUrl(u)
  \/ DebounceTimer
  \/ ImageLoad
  \/ ImageError
  \/ ApplyArt

SpecApp == AppInit /\ [][AppNext]_vars

\* The import workflow on its own: every action that puts tracks into the
\* playlist or changes an import, and the delivery of what they queue.
ImportNext ==
  \/ \E files \in Selections : ImportStart(files)
  \/ \E b \in 1..MaxImports, i \in 1..MaxFiles, allowed \in BOOLEAN :
       ParseResolve(b, i, allowed)
  \/ \E b \in 1..MaxImports, i \in 1..MaxFiles : ParseReject(b, i)
  \/ PlaybackError
  \/ DeliverEvent

SpecImport == AppInit /\ [][ImportNext]_vars

\* Selections in which every file parses.
Playable == {files \in Selections : \A i \in DOMAIN files : files[i] # "corrupt"}

\* Import and track selection: imports of playable files, the playlist rows,
\* next, previous and end-of-media.
TransportNext ==
  \/ \E files \in Playable : ImportStart(files)
  \/ \E b \in 1..MaxImports, i \in 1..MaxFiles, allowed \in BOOLEAN :
       ParseResolve(b, i, allowed)
  \/ \E index \in 0..(MaxFiles - 1), allowed \in BOOLEAN : PlayTrack(index, allowed)
  \/ \E allowed \in BOOLEAN : HandleNextTrack(allowed)
  \/ \E allowed \in BOOLEAN : HandlePrevTrack(allowed)
  \/ \E allowed \in BOOLEAN : HostEnded(allowed)
  \/ PlaybackError
  \/ DeliverEvent

SpecTransport == AppInit /\ [][TransportNext]_vars

\* The modal on its own: one song is imported, then every edit of the input.
ModalNext ==
  \/ ImportStart(<<"song">>)
  \/ \E b \in 1..MaxImports, allowed \in BOOLEAN : ParseResolve(b, 1, allowed)
  \/ PlaybackError
  \/ OpenArtModal
  \/ CloseArtModal
  \/ \E u \in ImageUrls : EditImageUrl(u)
  \/ DebounceTimer
  \/ ImageLoad
  \/ ImageError
  \/ ApplyArt

SpecModal == AppInit /\ [][ModalNext]_vars

\* ------------------------------------------------ properties of repair
HasWideUnit(s) == \E i \in 1..Len(s) : s[i] > 255
AllBytes(s) == \A i \in 1..Len(s) : s[i] <= 255
\* Step 1's pattern, stated on the units: zero low byte, high byte 0x20..0x7E.
FitsStep1(s) ==
  \A i \in 1..Len(s) : s[i] % 256 = 0 /\ s[i] \div 256 \in 32..126
HighBytes(s) == [i \in 1..Len(s) |-> s[i] \div 256]
Called == pc = "done" /\ text.def /\ text.units # <<>>
Unchanged == result.def /\ ~result.threw /\ result.units = text.units

\* C1 as stated: every string with a code unit > 255 is returned unchanged.
C1_AnyWideUnitUnchanged ==
  (Called /\ HasWideUnit(text.units)) => Unchanged

\* C1, amended: a string with a code unit > 255 that does not fit step 1's
\* pattern in every unit is returned unchanged.
C1_WideTextUnchanged ==
  (Called /\ HasWideUnit(text.units) /\ ~FitsStep1(text.units)) => Unchanged

C1_Witness ==
  /\ Called /\ HasWideUnit(text.units) /\ ~FitsStep1(text.units)
  /\ \E i \in 1..Len(text.units) : text.units[i] \in 128..255
  /\ Unchanged

C3_ShiftedAsciiReconstructed ==
  Called =>
    /\ FitsStep1(text.units) =>
         (result.def /\ ~result.threw /\ result.units = HighBytes(text.units))
    /\ ~FitsStep1(text.units) =>
         \A k \in 1..Len(text.units) :
           FitsStep1(SubSeq(text.units, 1, k)) =>
             result.units # HighBytes(SubSeq(text.units, 1, k))

C3_Witness ==
  /\ Called /\ Len(text.units) = 1 /\ FitsStep1(text.units)
  /\ result.units = <<65>>

\* C4: bytes that decode strictly as UTF-8 to something other than the input
\* repair to the UTF-8 decoding, whatever Shift-JIS makes of them.
C4_Utf8Preferred ==
  (Called /\ ~FitsStep1(text.units) /\ AllBytes(text.units)
     /\ Utf8Decode(text.units).ok /\ Utf8Decode(text.units).units # text.units)
  => (result.def /\ ~result.threw /\ result.units = Utf8Decode(text.units).units)

C4_Witness ==
  /\ Called /\ AllBytes(text.units)
  /\ Utf8Decode(text.units).ok /\ Utf8Decode(text.units).units # text.units
  /\ SjisDecode(text.units).ok /\ SjisDecode(text.units).units # text.units
  /\ SjisDecode(text.units).units # Utf8Decode(text.units).units
  /\ result.units = Utf8Decode(text.units).units

\* C5: the Shift-JIS decoding is what repair returns exactly when UTF-8
\* failed or gave the input back and Shift-JIS succeeds with something else;
\* bytes invalid as UTF-8 and valid as Shift-JIS repair to the Shift-JIS text.
C5_SjisFallback ==
  (Called /\ ~FitsStep1(text.units) /\ AllBytes(text.units)) =>
    LET utf8 == Utf8Decode(text.units)
        sjis == SjisDecode(text.units)
    IN /\ (result.units # text.units /\ sjis.ok /\ result.units = sjis.units)
            <=> ((~utf8.ok \/ utf8.units = text.units)
                   /\ sjis.ok /\ sjis.units # text.units)
       /\ (~utf8.ok /\ sjis.ok) => result.units = sjis.units

C5_Witness ==
  /\ Called /\ AllBytes(text.units)
  /\ ~Utf8Decode(text.units).ok
  /\ SjisDecode(text.units).ok /\ SjisDecode(text.units).units # text.units
  /\ result.units = SjisDecode(text.units).units

\* C6: repair never raises; bytes invalid both as UTF-8 and as Shift-JIS
\* come back unchanged.
C6_NeverRaises ==
  pc = "done" =>
    /\ ~result.threw /\ result.def
    /\ (text.def /\ text.units # <<>> /\ AllBytes(text.units)
          /\ ~Utf8Decode(text.units).ok /\ ~SjisDecode(text.units).ok)
        => result.units = text.units

C6_Witness ==
  /\ Called /\ AllBytes(text.units)
  /\ ~Utf8Decode(text.units).ok /\ ~SjisDecode(text.units).ok
  /\ Unchanged
\* ---------------------------------------------- properties of the App
\* C7 as stated: the parse failure message is on screen only while the
\* playlist is empty.
C7_FailureOnlyWithEmptyPlaylist == error = ParseFailed => playlist = <<>>

\* C8: a non-empty playlist is the whole of one import, every file of which
\* has been parsed, one track per file in selection order; an import with a
\* failed file has no track in the playlist.
C8_BatchAllOrNothing ==
  /\ playlist # <<>> =>
       \E b \in DOMAIN imports :
         /\ \A i \in DOMAIN imports[b].status : imports[b].status[i] = "ok"
         /\ Len(playlist) = Len(imports[b].files)
         /\ \A i \in DOMAIN playlist :
              /\ playlist[i].batch = b /\ playlist[i].idx = i
              /\ playlist[i].file = imports[b].files[i]
  /\ \A b \in DOMAIN imports :
       (\E i \in DOMAIN imports[b].status : imports[b].status[i] # "ok") =>
         \A t \in Range(playlist) : t.batch # b

C8_Witness ==
  /\ Len(playlist) = 2 /\ playlist[1].batch = 2
  /\ Len(imports[1].files) = 2
  /\ imports[1].status[1] = "ok" /\ imports[1].status[2] = "failed"

\* C9 as stated: while the apply button is enabled, the preview URL is an
\* http URL whose load event has fired.
C9_ApplyOnlyLoadedHttp ==
  (isArtModalOpen /\ isValidImage) =>
    (StartsWithHttp(previewUrl) /\ previewUrl \in loadedOk)

\* C10 as stated: when a play() promise is rejected, isPlaying is false
\* afterwards and playlist, current index and error message are untouched.
C10_RejectedPlayLeavesPaused ==
  [][PlaybackError =>
       (~isPlaying' /\ UNCHANGED <<playlist, currentTrackIndex, error>>)]_vars

\* C11 as stated: no track of the current playlist has a revoked blobUrl.
C11_PlaylistUrlsLive ==
  \A t \in Range(playlist) : <<t.batch, t.idx, "file">> \notin revoked

\* C12 as stated: a step that changes the albumArtUrl of a track changes it
\* for the track that was current when the modal was opened, and for no other.
C12_ArtGoesToOpenedTrack ==
  [][\A i \in DOMAIN playlist :
       (i \in DOMAIN playlist'
          /\ playlist'[i].batch = playlist[i].batch
          /\ playlist'[i].albumArtUrl # playlist[i].albumArtUrl)
       => <<playlist[i].batch, playlist[i].idx>> = artTarget]_vars

\* C13: currentTrackIndex is null exactly when the playlist is empty and is
\* otherwise an index into it; next moves to (i + 1) mod n and previous to
\* (i - 1 + n) mod n.
C13_IndexValidAndCyclic ==
  /\ []((currentTrackIndex = -1 <=> playlist = <<>>)
        /\ (currentTrackIndex # -1 =>
              currentTrackIndex \in 0..(Len(playlist) - 1)))
  /\ [][/\ (\E allowed \in BOOLEAN : HandleNextTrack(allowed)) =>
             currentTrackIndex' = (currentTrackIndex + 1) % Len(playlist)
        /\ (\E allowed \in BOOLEAN : HandlePrevTrack(allowed)) =>
             currentTrackIndex' =
               (currentTrackIndex - 1 + Len(playlist)) % Len(playlist)]_vars

C13_Witness ==
  /\ Len(playlist) = 2 /\ currentTrackIndex = 1
  /\ Len(imports) = 2 /\ playlist[1].batch = 2

\* C14 as stated: when playback reaches end-of-media with a non-empty
\* playlist, the cyclically next track becomes current, is loaded into the
\* audio element and is asked to play (the host accepts or refuses).
C14_EndedLoadsAndPlaysNext ==
  [][((\E allowed \in BOOLEAN : HostEnded(allowed)) /\ playlist # <<>>) =>
       LET next == (currentTrackIndex + 1) % Len(playlist)
       IN /\ currentTrackIndex' = next
          /\ audioSrc' = CurrentTrack(playlist, next)
          /\ (~audioPaused' \/ playPromise' = "rejected")]_vars
====
